---- MODULE Spec2Model ----
(***************************************************************************)
(* The asset pipeline of biru_kataria: one ContentAsset row, the advance   *)
(* and status endpoints of src/api/pipeline.py, the five stage handlers of *)
(* src/agents/pipeline_executor.py, the asset reads of src/api/assets.py   *)
(* and the background tasks of src/workers/tasks.py.                       *)
(*                                                                         *)
(* Assets are independent rows, so one asset is modelled.  Every request   *)
(* has its own database session; an action is the code between two        *)
(* commits.  The pipeline_* columns are those of the migration             *)
(* alembic/versions/a1b2c3_add_pipeline_tracking.py; a write into the JSON *)
(* columns (pipeline_data[key] = ..., meta_data[key] = ...) followed by    *)
(* db.commit() is taken to be persisted, as the handlers assume.           *)
(***************************************************************************)
EXTENDS Integers, Sequences, FiniteSets, TLC

\* Two clients may call advance for the asset at the same time.
Calls == {1, 2}

\* The clip URLs the vendor can return for the project (http URLs), and the
\* items of its list: a clip with its videoUrl, or a clip without one.
Urls == {"u1"}
Items == Urls \cup {"no_url"}

\* The clock is observed in jumps of 100 seconds, up to MaxAge seconds after
\* the last update of the row.
MaxAge == 200

VARIABLES
    status,                 \* ContentAsset.status
    pipeline_step,          \* ContentAsset.pipeline_step
    pipeline_step_status,   \* ContentAsset.pipeline_step_status
    pipeline_data,          \* ContentAsset.pipeline_data: step -> recorded status
    error_message,          \* ContentAsset.error_message
    vizard_project_id,      \* ContentAsset.meta_data['vizard_project_id'] (0: unset)
    file_path,              \* ContentAsset.file_path is set
    age,                    \* seconds since ContentAsset.updated_at
    clips,                  \* Clip rows of the asset, per vendor URL
    vendor_clips,           \* the clip list the vendor holds for the project
    vizard_api_key,         \* settings.vizard_api_key is set
    pc,                     \* per advance call: where it is
    current,                \* per advance call: the local `current`
    current_status,         \* per advance call: the local `current_status`
    next_step,              \* per advance call: the local `next_step`
    result,                 \* per advance call: the handler's result['status']
    handlers_run,           \* per advance call: handlers invoked by this call
    to_create,              \* per advance call: URLs found without a Clip row
    response,               \* per advance call: what the call returned last
    task,                   \* the background processing task
    view,                   \* the response of the last read request
    w_pc,                   \* build_clip_windows: where it is
    segments,               \* the transcript segments given to it
    candidates,             \* its local `candidates`
    windows,                \* its local `windows`
    current_window,         \* its local `current_window`
    idx,                    \* the position of its running loop
    clip_specs              \* its local `clip_specs`, in the end its result

AssetCols == <<status, pipeline_step, pipeline_step_status, pipeline_data,
               error_message, vizard_project_id, file_path>>
callVars == <<pc, current, current_status, next_step, result, handlers_run,
              to_create, response>>
pipelineVars == <<status, pipeline_step, pipeline_step_status, pipeline_data,
                  error_message, vizard_project_id, file_path, age, clips,
                  vendor_clips, vizard_api_key, pc, current, current_status,
                  next_step, result, handlers_run, to_create, response, task,
                  view>>
builderVars == <<w_pc, segments, candidates, windows, current_window, idx,
                 clip_specs>>
vars == <<pipelineVars, builderVars>>

\* PipelineAdvanceResponse (step_advanced_to, status, message) and the read
\* responses, before any request was answered.
NoResponse == [step |-> 0, status |-> "NONE", message |-> "NONE"]
NoView == [op |-> "NONE", overall |-> "NONE", current |-> 0, steps |-> <<>>,
           error |-> "None"]

\* updated_at has onupdate=func.now(): a commit that changes a column of the
\* row resets its age, a commit that changes nothing leaves it.
Commit == age' = IF AssetCols' # AssetCols THEN 0 ELSE age

Max(a, b) == IF a >= b THEN a ELSE b

TypeOK ==
    /\ status \in {"PENDING", "PROCESSING", "READY", "FAILED"}
    /\ pipeline_step \in 0..5
    /\ pipeline_step_status \in
           {"PENDING", "RUNNING", "COMPLETED", "FAILED", "SKIPPED", "POLLING"}
    /\ pipeline_data \in [1..5 -> {"ABSENT", "COMPLETED", "SKIPPED", "POLLING"}]
    /\ vizard_project_id \in 0..1
    /\ file_path \in BOOLEAN
    /\ age \in 0..MaxAge
    /\ vendor_clips \subseteq Items
    /\ vizard_api_key \in BOOLEAN
    /\ pc \in [Calls -> {"idle", "exec", "poll", "insert", "ok", "raised"}]
    /\ handlers_run \in [Calls -> 0..1]
    /\ to_create \in [Calls -> SUBSET Urls]
    /\ clips \in [Urls -> 0..Cardinality(Calls)]
    /\ w_pc \in {"idle", "score", "filter", "sort", "merge", "pad", "done"}
    /\ Len(clip_specs) <= Len(segments)

----------------------------------------------------------------------------
(* Ingestion: the state right after the asset row is created.              *)

InitAsset ==
    /\ status = "PENDING"
    /\ pipeline_step_status = "PENDING"
    /\ pipeline_data = [k \in 1..5 |-> "ABSENT"]
    /\ error_message = "None"
    /\ vizard_project_id = 0
    /\ age = 0
    /\ clips = [u \in Urls |-> 0]
    /\ vendor_clips = {}
    /\ vizard_api_key \in BOOLEAN
    /\ pc = [c \in Calls |-> "idle"]
    /\ current = [c \in Calls |-> 0]
    /\ current_status = [c \in Calls |-> "NONE"]
    /\ next_step = [c \in Calls |-> 0]
    /\ result = [c \in Calls |-> "NONE"]
    /\ handlers_run = [c \in Calls |-> 0]
    /\ to_create = [c \in Calls |-> {}]
    /\ response = [c \in Calls |-> NoResponse]
    /\ view = NoView
    /\ \/ \* upload_youtube: the YouTube task, or the sync fallback
          /\ pipeline_step = 0 /\ file_path = FALSE
          /\ task \in {"yt_queued", "pa_queued"}
       \/ \* upload_asset: a local file, process_asset dispatched
          /\ pipeline_step = 0 /\ file_path = TRUE /\ task = "pa_queued"
       \/ \* WhatsAppController._handle_yt_link: step 1, nothing dispatched
          /\ pipeline_step = 1 /\ file_path = FALSE /\ task = "none"

\* The values of a window, and of the builder's locals before it runs.
NoWindow == [start |-> 0, end |-> 0, score |-> 0, texts |-> <<>>]

BuilderIdle ==
    /\ w_pc = "idle"
    /\ segments = <<>>
    /\ candidates = <<>>
    /\ windows = <<>>
    /\ current_window = NoWindow
    /\ idx = 0
    /\ clip_specs = <<>>

Init == InitAsset /\ BuilderIdle

----------------------------------------------------------------------------
(* POST /pipeline/{asset_id}/advance                                       *)

\* Variant: the guard tests `current > 5`.
AlreadyCompleteStrict(cur, cs) == cur > 5 /\ cs = "COMPLETED"

AlreadyComplete(cur, cs) == cur >= 5 /\ cs = "COMPLETED"

\* Variant: a FAILED step restarts the pipeline at step 1.
ChooseNextStepRestart(cur, cs) ==
    IF cs \in {"COMPLETED", "SKIPPED"} THEN cur + 1
    ELSE IF cs = "POLLING" THEN cur
    ELSE IF cs = "FAILED" THEN 1
    ELSE Max(cur, 1)

\* Variant: a completed step is followed by the step after the next.
ChooseNextStepSkip(cur, cs) ==
    IF cs \in {"COMPLETED", "SKIPPED"} THEN cur + 2
    ELSE IF cs = "POLLING" THEN cur
    ELSE IF cs = "FAILED" THEN cur
    ELSE Max(cur, 1)

\* Variant: POLLING is treated like COMPLETED.
ChooseNextStepPollingAdvances(cur, cs) ==
    IF cs \in {"COMPLETED", "SKIPPED", "POLLING"} THEN cur + 1
    ELSE IF cs = "FAILED" THEN cur
    ELSE Max(cur, 1)

\* Variant: an asset that has not started begins at step 2.
ChooseNextStepFromTwo(cur, cs) ==
    IF cs \in {"COMPLETED", "SKIPPED"} THEN cur + 1
    ELSE IF cs = "POLLING" THEN cur
    ELSE IF cs = "FAILED" THEN cur
    ELSE Max(cur, 2)

\* Variant: FAILED is treated like COMPLETED.
ChooseNextStepFailedAdvances(cur, cs) ==
    IF cs \in {"COMPLETED", "SKIPPED", "FAILED"} THEN cur + 1
    ELSE IF cs = "POLLING" THEN cur
    ELSE Max(cur, 1)

ChooseNextStep(cur, cs) ==
    IF cs \in {"COMPLETED", "SKIPPED"} THEN cur + 1
    ELSE IF cs = "POLLING" THEN cur
    ELSE IF cs = "FAILED" THEN cur
    ELSE Max(cur, 1)

\* Lines 90-128: read the row, return at once when the pipeline is over,
\* otherwise mark the chosen step RUNNING and commit.
AdvanceBegin(c) ==
    /\ pc[c] = "idle"
    /\ UNCHANGED builderVars
    /\ current' = [current EXCEPT ![c] = pipeline_step]
    /\ current_status' = [current_status EXCEPT ![c] = pipeline_step_status]
    /\ handlers_run' = [handlers_run EXCEPT ![c] = 0]
    /\ result' = [result EXCEPT ![c] = "NONE"]
    /\ UNCHANGED <<pipeline_data, error_message, vizard_project_id, file_path,
                   clips, vendor_clips, vizard_api_key, to_create, task, view>>
    /\ LET n == ChooseNextStep(pipeline_step, pipeline_step_status) IN
       IF AlreadyComplete(pipeline_step, pipeline_step_status) THEN
           /\ response' = [response EXCEPT ![c] =
                  [step |-> 5, status |-> "COMPLETED",
                   message |-> "Pipeline already complete"]]
           /\ next_step' = [next_step EXCEPT ![c] = 0]
           /\ UNCHANGED <<status, pipeline_step, pipeline_step_status, pc,
                          age>>
       ELSE IF n > 5 THEN
           /\ status' = "READY"
           /\ response' = [response EXCEPT ![c] =
                  [step |-> 5, status |-> "COMPLETED",
                   message |-> "All steps complete"]]
           /\ next_step' = [next_step EXCEPT ![c] = n]
           /\ UNCHANGED <<pipeline_step, pipeline_step_status, pc>>
           /\ Commit
       ELSE
           /\ pipeline_step' = n
           /\ pipeline_step_status' = "RUNNING"
           /\ status' = "PROCESSING"
           /\ next_step' = [next_step EXCEPT ![c] = n]
           /\ response' = [response EXCEPT ![c] = NoResponse]
           /\ pc' = [pc EXCEPT ![c] = "exec"]
           /\ Commit

\* execute_step dispatches to exactly the handler of `step`.
Invoke(c, step) ==
    /\ pc[c] = "exec"
    /\ next_step[c] = step
    /\ handlers_run' = [handlers_run EXCEPT ![c] = @ + 1]

\* Variant: a raising handler resets the asset's pipeline_data.
RaiseWipe(c) ==
    /\ pc' = [pc EXCEPT ![c] = "raised"]
    /\ pipeline_data' = [k \in 1..5 |-> "ABSENT"]
    /\ UNCHANGED <<vizard_project_id, clips, age, result, to_create>>

\* The handler raised: nothing of it was committed.
Raise(c) ==
    /\ pc' = [pc EXCEPT ![c] = "raised"]
    /\ UNCHANGED <<pipeline_data, vizard_project_id, clips, age, result,
                   to_create>>

\* The handler recorded `st` under its key of pipeline_data, committed and
\* returned {'status': st}.
Record(c, step, st) ==
    /\ pipeline_data' = [pipeline_data EXCEPT ![step] = st]
    /\ age' = 0
    /\ result' = [result EXCEPT ![c] = st]
    /\ to_create' = [to_create EXCEPT ![c] = {}]
    /\ pc' = [pc EXCEPT ![c] = "ok"]

handlerFrame == <<builderVars,
                  status, pipeline_step, pipeline_step_status, error_message,
                  file_path, vendor_clips, vizard_api_key, current, current_status, next_step,
                  response, task, view>>

\* _step_fetch: metadata from yt-dlp, or an exception.
StepFetch(c) ==
    /\ Invoke(c, 1)
    /\ \/ Raise(c)
       \/ Record(c, 1, "COMPLETED") /\ UNCHANGED <<vizard_project_id, clips>>
    /\ UNCHANGED handlerFrame

\* _step_transcribe: SKIPPED when the audio is over 25MB.
StepTranscribe(c) ==
    /\ Invoke(c, 2)
    /\ \/ Raise(c)
       \/ \E st \in {"COMPLETED", "SKIPPED"} :
              Record(c, 2, st) /\ UNCHANGED <<vizard_project_id, clips>>
    /\ UNCHANGED handlerFrame

\* _step_analyze
StepAnalyze(c) ==
    /\ Invoke(c, 3)
    /\ \/ Raise(c)
       \/ Record(c, 3, "COMPLETED") /\ UNCHANGED <<vizard_project_id, clips>>
    /\ UNCHANGED handlerFrame

\* VizardAgent.get_clips: the vendor's list; [] on a non-200 answer or an
\* exception as well.
GetClips == {vendor_clips, {}}

\* Variant: on an empty list the handler sleeps and polls again instead of
\* returning.
ClipPollSleeps(c) ==
    \E got \in GetClips :
        IF got = {} THEN
            /\ pc' = [pc EXCEPT ![c] = "poll"]
            /\ age' = IF age + 100 <= MaxAge THEN age + 100 ELSE age
            /\ UNCHANGED <<pipeline_data, result, clips, to_create>>
        ELSE
            /\ to_create' = [to_create EXCEPT ![c] =
                                 {u \in got \cap Urls : clips[u] = 0}]
            /\ pc' = [pc EXCEPT ![c] = "insert"]
            /\ UNCHANGED <<pipeline_data, result, clips, age>>

\* Lines 252-288 of _step_clip: one poll; POLLING on an empty list, else
\* the handler looks up, for every videoUrl of the list, whether the asset
\* has a Clip row for it, and adds a row to its session for each that has
\* none.  Nothing of that is committed yet.
ClipPoll(c) ==
    \E got \in GetClips :
        IF got = {} THEN
            /\ Record(c, 4, "POLLING")
            /\ UNCHANGED clips
        ELSE
            /\ to_create' = [to_create EXCEPT ![c] =
                                 {u \in got \cap Urls : clips[u] = 0}]
            /\ pc' = [pc EXCEPT ![c] = "insert"]
            /\ UNCHANGED <<pipeline_data, result, clips, age>>

\* Variant: the handler creates a vendor project whether or not the asset
\* has one.
StepClipRecreates(c) ==
    /\ Invoke(c, 4)
    /\ \/ Raise(c)
       \/ /\ vizard_api_key
          /\ vizard_project_id' = 1
          /\ age' = 0
          /\ pc' = [pc EXCEPT ![c] = "poll"]
          /\ UNCHANGED <<pipeline_data, clips, result, to_create>>
    /\ UNCHANGED handlerFrame

\* _step_clip up to its first commit: create the vendor project when the
\* asset has none (create_project raises on a missing key, a non-200 answer
\* or a missing id), else go on to poll.
StepClip(c) ==
    /\ Invoke(c, 4)
    /\ IF vizard_project_id = 0 THEN
           \/ Raise(c)
           \/ /\ vizard_api_key
              /\ vizard_project_id' = 1
              /\ age' = 0
              /\ pc' = [pc EXCEPT ![c] = "poll"]
              /\ UNCHANGED <<pipeline_data, clips, result, to_create>>
       ELSE
           ClipPoll(c) /\ UNCHANGED vizard_project_id
    /\ UNCHANGED handlerFrame

\* _step_clip after the project id was committed.
StepClipPoll(c) ==
    /\ pc[c] = "poll"
    /\ ClipPoll(c)
    /\ UNCHANGED <<vizard_project_id, handlers_run>>
    /\ UNCHANGED handlerFrame

\* Lines 291-299 of _step_clip: the rows added are committed together with
\* the COMPLETED record of the stage.
StepClipInsert(c) ==
    /\ pc[c] = "insert"
    /\ clips' = [u \in Urls |->
                    IF u \in to_create[c] THEN clips[u] + 1 ELSE clips[u]]
    /\ Record(c, 4, "COMPLETED")
    /\ UNCHANGED <<vizard_project_id, handlers_run>>
    /\ UNCHANGED handlerFrame

\* _step_caption_post: for a READY clip whose file_path is an http URL it
\* calls poster.post_clip(video_url=, caption=, title=, platforms=), and
\* AutoPoster.post_clip has no parameter `caption`: the call raises
\* TypeError.  Without such a clip the step is recorded COMPLETED.
StepCaptionPost(c) ==
    /\ Invoke(c, 5)
    /\ \/ Raise(c)
       \/ /\ \A u \in Urls : clips[u] = 0
          /\ Record(c, 5, "COMPLETED")
          /\ UNCHANGED <<vizard_project_id, clips>>
    /\ UNCHANGED handlerFrame

\* Lines 134-151: persist the handler's status and answer.
AdvanceCommitResult(c) ==
    /\ pc[c] = "ok"
    /\ UNCHANGED builderVars
    /\ pipeline_step' = next_step[c]
    /\ pipeline_step_status' = result[c]
    /\ status' = IF next_step[c] = 5 /\ result[c] = "COMPLETED"
                 THEN "READY" ELSE status
    /\ response' = [response EXCEPT ![c] =
           [step |-> next_step[c], status |-> result[c],
            message |-> "step result"]]
    /\ pc' = [pc EXCEPT ![c] = "idle"]
    /\ UNCHANGED <<pipeline_data, error_message, vizard_project_id, file_path,
                   clips, vendor_clips, vizard_api_key, current,
                   current_status, next_step, result, handlers_run,
                   to_create, task, view>>
    /\ Commit

\* Variant: the except branch stores the error but not the step status.
AdvanceHandleExceptionNoStatus(c) ==
    /\ pc[c] = "raised"
    /\ UNCHANGED builderVars
    /\ pipeline_step' = next_step[c]
    /\ status' = "FAILED"
    /\ error_message' = "step error"
    /\ response' = [response EXCEPT ![c] =
           [step |-> next_step[c], status |-> "HTTP 500",
            message |-> "step error"]]
    /\ pc' = [pc EXCEPT ![c] = "idle"]
    /\ UNCHANGED <<pipeline_step_status, pipeline_data, vizard_project_id,
                   file_path, clips, vendor_clips, vizard_api_key, current,
                   current_status, next_step, result, handlers_run,
                   to_create, task, view>>
    /\ Commit

\* Lines 153-161: the handler raised.
AdvanceHandleException(c) ==
    /\ pc[c] = "raised"
    /\ UNCHANGED builderVars
    /\ pipeline_step' = next_step[c]
    /\ pipeline_step_status' = "FAILED"
    /\ status' = "FAILED"
    /\ error_message' = "step error"
    /\ response' = [response EXCEPT ![c] =
           [step |-> next_step[c], status |-> "HTTP 500",
            message |-> "step error"]]
    /\ pc' = [pc EXCEPT ![c] = "idle"]
    /\ UNCHANGED <<pipeline_data, vizard_project_id, file_path, clips,
                   vendor_clips, vizard_api_key, current, current_status,
                   next_step, result, handlers_run, to_create, task, view>>
    /\ Commit

----------------------------------------------------------------------------
(* GET /pipeline/{asset_id}/status                                         *)

\* _build_steps: the status shown for step `num`.
ShownStatus(num) ==
    LET recorded == IF pipeline_data[num] = "ABSENT" THEN "PENDING"
                    ELSE pipeline_data[num] IN
    IF num = pipeline_step /\ pipeline_step_status = "RUNNING" THEN "RUNNING"
    ELSE IF num > pipeline_step THEN "PENDING"
    ELSE recorded

\* _build_steps: no handler ever stores an 'error' key, data.get('error') is
\* None for every step.
BuildSteps == [num \in 1..5 |-> [status |-> ShownStatus(num), error |-> "None"]]

\* Variant: the status read fails an asset that was left PROCESSING or RUNNING
\* for more than 120 seconds before it answers.
GetPipelineStatusZombie ==
    /\ IF (status = "PROCESSING" \/ pipeline_step_status = "RUNNING") /\ age > 120
       THEN /\ status' = "FAILED"
            /\ pipeline_step_status' = "FAILED"
            /\ error_message' = "step error"
            /\ age' = 0
       ELSE UNCHANGED <<status, pipeline_step_status, error_message, age>>
    /\ view' = [op |-> "status", overall |-> status', current |-> pipeline_step,
                steps |-> [num \in 1..5 |-> BuildSteps[num].status],
                error |-> error_message']
    /\ UNCHANGED <<pipeline_step, pipeline_data, vizard_project_id, file_path,
                   clips, vendor_clips, vizard_api_key, task>>
    /\ UNCHANGED callVars
    /\ UNCHANGED builderVars

GetPipelineStatus ==
    /\ view' = [op |-> "status", overall |-> status, current |-> pipeline_step,
                steps |-> [num \in 1..5 |-> BuildSteps[num].status],
                error |-> error_message]
    /\ UNCHANGED <<status, pipeline_step, pipeline_step_status, pipeline_data,
                   error_message, vizard_project_id, file_path, age, clips,
                   vendor_clips, vizard_api_key, task>>
    /\ UNCHANGED callVars
    /\ UNCHANGED builderVars

----------------------------------------------------------------------------
(* GET /assets/{asset_id} and GET /assets                                  *)

\* get_asset: while the asset is PROCESSING and has a vendor project, poll
\* the vendor; on a non-empty list set the asset READY.  A clip of the list
\* that has a videoUrl and no Clip row yet makes it build Clip(...,
\* status=ClipStatus.READY), and the module does not import ClipStatus: the
\* request ends in NameError before anything is committed.
GetAsset ==
    /\ UNCHANGED <<pipeline_step, pipeline_step_status, pipeline_data,
                   error_message, vizard_project_id, file_path, clips,
                   vendor_clips, vizard_api_key, task>>
    /\ UNCHANGED callVars
    /\ UNCHANGED builderVars
    /\ IF status = "PROCESSING" /\ vizard_project_id # 0 THEN
           \E got \in GetClips :
               IF got = {} THEN
                   /\ UNCHANGED status
                   /\ view' = [op |-> "asset", overall |-> status,
                               current |-> 0, steps |-> <<>>,
                               error |-> error_message]
               ELSE IF \E u \in got \cap Urls : clips[u] = 0 THEN
                   /\ UNCHANGED status
                   /\ view' = [op |-> "asset", overall |-> "HTTP 500",
                               current |-> 0, steps |-> <<>>, error |-> "None"]
               ELSE
                   /\ status' = "READY"
                   /\ view' = [op |-> "asset", overall |-> "READY",
                               current |-> 0, steps |-> <<>>,
                               error |-> error_message]
       ELSE
           /\ UNCHANGED status
           /\ view' = [op |-> "asset", overall |-> status, current |-> 0,
                       steps |-> <<>>, error |-> error_message]
    /\ Commit

\* list_assets
ListAssets ==
    /\ view' = [op |-> "list", overall |-> status, current |-> 0,
                steps |-> <<>>, error |-> "None"]
    /\ UNCHANGED <<status, pipeline_step, pipeline_step_status, pipeline_data,
                   error_message, vizard_project_id, file_path, age, clips,
                   vendor_clips, vizard_api_key, task>>
    /\ UNCHANGED callVars
    /\ UNCHANGED builderVars

----------------------------------------------------------------------------
(* Background tasks of src/workers/tasks.py                                *)

taskFrame == <<pipeline_step, pipeline_step_status, pipeline_data,
               vizard_project_id, clips, vendor_clips, vizard_api_key, view>>

\* POST /assets/{asset_id}/process: _dispatch_process(asset_id, ...)
DispatchProcess ==
    /\ task \in {"none", "done"}
    /\ task' = "pa_queued"
    /\ UNCHANGED <<status, error_message, file_path, age>>
    /\ UNCHANGED taskFrame
    /\ UNCHANGED callVars
    /\ UNCHANGED builderVars

\* process_youtube_asset, lines 37-47
ProcessYoutubeStart ==
    /\ task = "yt_queued"
    /\ status' = "PROCESSING"
    /\ task' = "yt_downloading"
    /\ UNCHANGED <<error_message, file_path>>
    /\ UNCHANGED taskFrame
    /\ UNCHANGED callVars
    /\ UNCHANGED builderVars
    /\ Commit

\* process_youtube_asset, lines 49-56
ProcessYoutubeDownload ==
    /\ task = "yt_downloading"
    /\ \/ /\ file_path' = TRUE
          /\ task' = "pa_queued"
          /\ UNCHANGED <<status, error_message>>
       \/ /\ status' = "FAILED"
          /\ error_message' = "YouTube download failed"
          /\ task' = "done"
          /\ UNCHANGED file_path
    /\ UNCHANGED taskFrame
    /\ UNCHANGED callVars
    /\ UNCHANGED builderVars
    /\ Commit

\* process_asset, lines 65-71
ProcessAssetStart ==
    /\ task = "pa_queued"
    /\ IF file_path THEN
           /\ status' = "PROCESSING"
           /\ task' = "pa_running"
       ELSE
           /\ task' = "done"
           /\ UNCHANGED status
    /\ UNCHANGED <<error_message, file_path>>
    /\ UNCHANGED taskFrame
    /\ UNCHANGED callVars
    /\ UNCHANGED builderVars
    /\ Commit

\* process_asset, lines 73-142: the agents run; READY, or FAILED with the
\* exception's text.  Its Clip rows are local files, not vendor URLs.
ProcessAssetFinish ==
    /\ task = "pa_running"
    /\ \/ /\ status' = "READY"
          /\ UNCHANGED error_message
       \/ /\ status' = "FAILED"
          /\ error_message' = "pipeline error"
    /\ task' = "done"
    /\ UNCHANGED file_path
    /\ UNCHANGED taskFrame
    /\ UNCHANGED callVars
    /\ UNCHANGED builderVars
    /\ Commit

----------------------------------------------------------------------------
(* Environment                                                             *)

\* The vendor finishes rendering the clips of the project.
VendorFinish ==
    /\ vizard_project_id # 0
    /\ vendor_clips = {}
    /\ \E item \in Items : vendor_clips' = {item}
    /\ UNCHANGED <<status, pipeline_step, pipeline_step_status, pipeline_data,
                   error_message, vizard_project_id, file_path, age, clips,
                   vizard_api_key, task, view>>
    /\ UNCHANGED callVars
    /\ UNCHANGED builderVars

\* 100 seconds pass without a write to the row.
Tick ==
    /\ age + 100 <= MaxAge
    /\ age' = age + 100
    /\ UNCHANGED <<status, pipeline_step, pipeline_step_status, pipeline_data,
                   error_message, vizard_project_id, file_path, clips,
                   vendor_clips, vizard_api_key, task, view>>
    /\ UNCHANGED callVars
    /\ UNCHANGED builderVars

----------------------------------------------------------------------------

Advance(c) ==
    \/ AdvanceBegin(c)
    \/ StepFetch(c)
    \/ StepTranscribe(c)
    \/ StepAnalyze(c)
    \/ StepClip(c)
    \/ StepClipPoll(c)
    \/ StepClipInsert(c)
    \/ StepCaptionPost(c)
    \/ AdvanceCommitResult(c)
    \/ AdvanceHandleException(c)

Other ==
    \/ GetPipelineStatus
    \/ GetAsset
    \/ ListAssets
    \/ DispatchProcess
    \/ ProcessYoutubeStart
    \/ ProcessYoutubeDownload
    \/ ProcessAssetStart
    \/ ProcessAssetFinish
    \/ VendorFinish
    \/ Tick

\* One client drives the asset: its advance calls follow one another, while
\* reads, the background task, the vendor and the clock interleave freely.
Next == Advance(1) \/ Other

Spec == Init /\ [][Next]_vars

\* Two clients call advance for the same asset; their calls overlap.
NextRace ==
    \/ \E c \in Calls : Advance(c)
    \/ VendorFinish
    \/ GetAsset

\* The asset of the race is one ingested over WhatsApp, for which no
\* background task is dispatched.
InitRace == Init /\ task = "none"

SpecRace == InitRace /\ [][NextRace]_vars

\* A newly ingested asset driven to the end: one caller re-invokes advance
\* for ever, the dispatched task and the vendor run beside it, and the
\* clip-vendor key is configured.
NextLive ==
    \/ Advance(1)
    \/ VendorFinish
    \/ ProcessYoutubeStart
    \/ ProcessYoutubeDownload
    \/ ProcessAssetStart
    \/ ProcessAssetFinish

InitLive == Init /\ vizard_api_key

\* A handler that can succeed does so eventually; a poll of the vendor that
\* can return its list does so eventually.
LiveFairness ==
    /\ WF_vars(Advance(1))
    /\ WF_vars(VendorFinish)
    /\ SF_vars(StepFetch(1) /\ pc'[1] = "ok")
    /\ SF_vars(StepTranscribe(1) /\ pc'[1] = "ok")
    /\ SF_vars(StepAnalyze(1) /\ pc'[1] = "ok")
    /\ SF_vars(StepClip(1) /\ pc'[1] = "poll")
    /\ SF_vars((StepClip(1) \/ StepClipPoll(1)) /\ pc'[1] = "insert")
    /\ SF_vars(StepCaptionPost(1) /\ pc'[1] = "ok")

SpecLive == InitLive /\ [][NextLive]_vars /\ LiveFairness

----------------------------------------------------------------------------
(* The segment scorer of src/agents/understanding.py and the window        *)
(* builder of src/agents/viral_cutter.py.                                  *)
(*                                                                         *)
(* Times are in hundredths of a second, the resolution of round(x, 2);     *)
(* scores are in thousandths, the resolution of round(x, 3).  The times of *)
(* the segments are multiples of half a second, so that every sum,         *)
(* difference and half deficit below is a whole number of hundredths and   *)
(* is exact in the code's floats as well.                                  *)

\* Hundredths of a second per second.
Scale == 100

MAX_CLIPS_PER_ASSET == 25
MIN_CLIP_DURATION == 5
MAX_CLIP_DURATION == 60
MERGE_GAP == 3

\* min_score, the default of build_clip_windows, in thousandths.
MinScore == 300

\* At most MaxSegments segments are given to the builder.
MaxSegments == 2

\* The start and end times a segment can have.
TimePoints == {0, 100, 400, 450, 1000, 7000}

\* The texts a segment can have, with the number of HOOK_KEYWORDS contained
\* in each and its number of words.
Texts == {"hi", "bhai dekh", "rant"}

\* The texts the scorer is tried on as well: the empty text and a text with
\* eight of the keywords.
EightKeywords == "bhai yaar dekh sun sach asli real dil"
ScorerTexts == Texts \cup {"", EightKeywords}

KeywordHits(text) ==
    CASE text = "" -> 0
      [] text = "hi" -> 0
      [] text = "bhai dekh" -> 2
      [] text = "rant" -> 4
      [] text = EightKeywords -> 8
WordCount(text) ==
    CASE text = "" -> 0
      [] text = "hi" -> 1
      [] text = "bhai dekh" -> 2
      [] text = "rant" -> 280
      [] text = EightKeywords -> 8

\* avg_logprob of a segment, in hundredths: a confident transcription.
LogProbs == {-20}

Min(a, b) == IF a <= b THEN a ELSE b

\* Variant: the keyword part and the total are not capped.
ScoreSegmentHookUncapped(segment) ==
    LET keywords == KeywordHits(segment.text) * 100
        duration == segment.end - segment.start
        punchy == IF 2 * Scale <= duration /\ duration <= 8 * Scale THEN 300
                  ELSE IF duration <= 15 * Scale THEN 150
                  ELSE 0
        score == keywords + punchy
        penalised == IF segment.avg_logprob < -100 THEN score \div 2 ELSE score
    IN  IF segment.start <= 30 * Scale THEN penalised + 100 ELSE penalised

\* _score_segment_hook, then round(.., 3)
ScoreSegmentHook(segment) ==
    LET keywords == Min(KeywordHits(segment.text) * 100, 400)
        duration == segment.end - segment.start
        punchy == IF 2 * Scale <= duration /\ duration <= 8 * Scale THEN 300
                  ELSE IF duration <= 15 * Scale THEN 150
                  ELSE 0
        score == keywords + punchy
        penalised == IF segment.avg_logprob < -100 THEN score \div 2 ELSE score
        boosted == IF segment.start <= 30 * Scale THEN penalised + 100
                   ELSE penalised
    IN  Min(boosted, 1000)

\* _score_segment_energy, then round(.., 3)
ScoreSegmentEnergy(segment) ==
    LET duration == segment.end - segment.start
        words == WordCount(segment.text) * Scale
    IN  IF duration <= 0 THEN 0
        ELSE IF words >= 4 * duration THEN 900
        ELSE IF words >= 3 * duration THEN 700
        ELSE IF words >= 2 * duration THEN 500
        ELSE IF words >= duration THEN 300
        ELSE 100

\* A Segment as transcribed, before scoring.
Segments ==
    {seg \in [start : TimePoints, end : TimePoints, text : Texts,
              avg_logprob : LogProbs, hook_score : {0}, energy_score : {0}] :
        seg.start <= seg.end}

\* list.sort(key=start): stable, ascending.
RECURSIVE InsertByStart(_, _)
InsertByStart(x, sorted) ==
    IF sorted = <<>> THEN <<x>>
    ELSE IF x.start < Head(sorted).start THEN <<x>> \o sorted
    ELSE <<Head(sorted)>> \o InsertByStart(x, Tail(sorted))

RECURSIVE SortByStart(_)
SortByStart(seq) ==
    IF seq = <<>> THEN <<>>
    ELSE InsertByStart(seq[Len(seq)], SortByStart(SubSeq(seq, 1, Len(seq) - 1)))

\* list.sort(key=score, reverse=True): stable, descending.
RECURSIVE InsertByScore(_, _)
InsertByScore(x, sorted) ==
    IF sorted = <<>> THEN <<x>>
    ELSE IF x.score > Head(sorted).score THEN <<x>> \o sorted
    ELSE <<Head(sorted)>> \o InsertByScore(x, Tail(sorted))

RECURSIVE SortByScore(_)
SortByScore(seq) ==
    IF seq = <<>> THEN <<>>
    ELSE InsertByScore(seq[Len(seq)], SortByScore(SubSeq(seq, 1, Len(seq) - 1)))

\* The segments the scorer alone is tried on: the end may lie before the
\* start, the text may be empty, the transcription may be unsure.
ScorerTimes == {0, 100, 400, 1000, 3100, 7000}
ScorerLogProbs == {-150, -100, -20}
ScorerSegments ==
    [start : ScorerTimes, end : ScorerTimes, text : ScorerTexts,
     avg_logprob : ScorerLogProbs, hook_score : {0}, energy_score : {0}]

\* One segment of any shape is about to be scored.
InitScorer ==
    /\ InitAsset /\ task = "none" /\ vizard_api_key
    /\ w_pc = "score"
    /\ segments \in [1..1 -> ScorerSegments]
    /\ candidates = <<>>
    /\ windows = <<>>
    /\ current_window = NoWindow
    /\ idx = 0
    /\ clip_specs = <<>>

\* A transcript of up to MaxSegments segments is handed over.
InitWindows ==
    /\ InitAsset /\ task = "none" /\ vizard_api_key
    /\ w_pc = "score"
    /\ \E n \in 1..MaxSegments : segments \in [1..n -> Segments]
    /\ candidates = <<>>
    /\ windows = <<>>
    /\ current_window = NoWindow
    /\ idx = 0
    /\ clip_specs = <<>>

\* understanding.transcribe, lines 172-175: every segment gets its scores.
ScoreSegments ==
    /\ w_pc = "score"
    /\ segments' = [i \in 1..Len(segments) |->
           [segments[i] EXCEPT !.hook_score = ScoreSegmentHook(segments[i]),
                               !.energy_score = ScoreSegmentEnergy(segments[i])]]
    /\ w_pc' = "filter"
    /\ UNCHANGED <<candidates, windows, current_window, idx, clip_specs>>
    /\ UNCHANGED pipelineVars

\* combined = hook_score * 0.6 + energy_score * 0.4, in ten-thousandths.
Combined(seg) == seg.hook_score * 6 + seg.energy_score * 4

RECURSIVE Qualifying(_)
Qualifying(segs) ==
    IF segs = <<>> THEN <<>>
    ELSE LET seg == Head(segs) IN
         (IF Combined(seg) >= MinScore * 10
          THEN <<[start |-> seg.start, end |-> seg.end, text |-> seg.text,
                  score |-> Combined(seg) \div 10]>>
          ELSE <<>>) \o Qualifying(Tail(segs))

\* build_clip_windows, lines 82-103: keep the segments that score at least
\* min_score; without any, return [].
FilterCandidates ==
    /\ w_pc = "filter"
    /\ candidates' = Qualifying(segments)
    /\ w_pc' = IF candidates' = <<>> THEN "done" ELSE "sort"
    /\ UNCHANGED <<segments, windows, current_window, idx, clip_specs>>
    /\ UNCHANGED pipelineVars

\* Lines 105-115: sort by time, open the first window.
SortCandidates ==
    /\ w_pc = "sort"
    /\ candidates' = SortByStart(candidates)
    /\ current_window' = [start |-> candidates'[1].start,
                          end |-> candidates'[1].end,
                          score |-> candidates'[1].score,
                          texts |-> <<candidates'[1].text>>]
    /\ idx' = 2
    /\ w_pc' = "merge"
    /\ UNCHANGED <<segments, windows, clip_specs>>
    /\ UNCHANGED pipelineVars

\* Variant: a segment is merged only when it starts before the window ends.
MergeStepNoGap ==
    /\ w_pc = "merge"
    /\ idx <= Len(candidates)
    /\ LET seg == candidates[idx]
           gap == seg.start - current_window.end IN
       IF gap <= 0 THEN
           /\ current_window' = [current_window EXCEPT
                  !.end = seg.end,
                  !.score = Max(current_window.score, seg.score),
                  !.texts = Append(current_window.texts, seg.text)]
           /\ UNCHANGED windows
       ELSE
           /\ windows' = Append(windows, current_window)
           /\ current_window' = [start |-> seg.start, end |-> seg.end,
                                 score |-> seg.score, texts |-> <<seg.text>>]
    /\ idx' = idx + 1
    /\ UNCHANGED <<w_pc, segments, candidates, clip_specs>>
    /\ UNCHANGED pipelineVars

\* Lines 117-132: one turn of the merge loop.
MergeStep ==
    /\ w_pc = "merge"
    /\ idx <= Len(candidates)
    /\ LET seg == candidates[idx]
           gap == seg.start - current_window.end IN
       IF gap <= MERGE_GAP * Scale THEN
           /\ current_window' = [current_window EXCEPT
                  !.end = seg.end,
                  !.score = Max(current_window.score, seg.score),
                  !.texts = Append(current_window.texts, seg.text)]
           /\ UNCHANGED windows
       ELSE
           /\ windows' = Append(windows, current_window)
           /\ current_window' = [start |-> seg.start, end |-> seg.end,
                                 score |-> seg.score, texts |-> <<seg.text>>]
    /\ idx' = idx + 1
    /\ UNCHANGED <<w_pc, segments, candidates, clip_specs>>
    /\ UNCHANGED pipelineVars

\* Line 133: the last window is closed.
CloseWindow ==
    /\ w_pc = "merge"
    /\ idx > Len(candidates)
    /\ windows' = Append(windows, current_window)
    /\ idx' = 1
    /\ w_pc' = "pad"
    /\ UNCHANGED <<segments, candidates, current_window, clip_specs>>
    /\ UNCHANGED pipelineVars

\* Variant: what the clamp at 0 takes from the start is added at the end.
PaddedRedistributes(w) ==
    LET duration == w.end - w.start
        pad == (MIN_CLIP_DURATION * Scale - duration) \div 2
        start == Max(0, w.start - pad)
    IN  IF duration < MIN_CLIP_DURATION * Scale
        THEN [w EXCEPT !.start = start,
                       !.end = start + MIN_CLIP_DURATION * Scale]
        ELSE w

\* Lines 138-148: the window after padding and capping.
Padded(w) ==
    LET duration == w.end - w.start
        pad == (MIN_CLIP_DURATION * Scale - duration) \div 2
    IN  IF duration < MIN_CLIP_DURATION * Scale
        THEN [w EXCEPT !.start = Max(0, w.start - pad), !.end = w.end + pad]
        ELSE w

Capped(w) ==
    IF w.end - w.start > MAX_CLIP_DURATION * Scale
    THEN [w EXCEPT !.end = w.start + MAX_CLIP_DURATION * Scale]
    ELSE w

\* ClipSpec(start_time, end_time, score, source_segments) and __post_init__
ClipSpec(w) ==
    [start_time |-> w.start, end_time |-> w.end,
     duration |-> w.end - w.start, score |-> w.score,
     source_segments |-> w.texts]

\* Lines 137-155: one turn of the padding loop; the window is changed in
\* place.
PadAndCap ==
    /\ w_pc = "pad"
    /\ idx <= Len(windows)
    /\ LET w == Capped(Padded(windows[idx])) IN
       /\ windows' = [windows EXCEPT ![idx] = w]
       /\ clip_specs' = Append(clip_specs, ClipSpec(w))
    /\ idx' = idx + 1
    /\ UNCHANGED <<w_pc, segments, candidates, current_window>>
    /\ UNCHANGED pipelineVars

\* Lines 157-162: best first, at most MAX_CLIPS_PER_ASSET.
RankAndTruncate ==
    /\ w_pc = "pad"
    /\ idx > Len(windows)
    /\ clip_specs' = SubSeq(SortByScore(clip_specs), 1,
                            Min(Len(clip_specs), MAX_CLIPS_PER_ASSET))
    /\ w_pc' = "done"
    /\ UNCHANGED <<segments, candidates, windows, current_window, idx>>
    /\ UNCHANGED pipelineVars

NextWindows ==
    \/ ScoreSegments
    \/ FilterCandidates
    \/ SortCandidates
    \/ MergeStep
    \/ CloseWindow
    \/ PadAndCap
    \/ RankAndTruncate

SpecWindows == InitWindows /\ [][NextWindows]_vars

\* The scorer on its own, on one segment of any shape.
NextScorer == ScoreSegments

SpecScorer == InitScorer /\ [][NextScorer]_vars

----------------------------------------------------------------------------
(* Properties                                                              *)

TerminalResult ==
    [step |-> 5, status |-> "COMPLETED", message |-> "Pipeline already complete"]

\* C1: on an asset at step 5 with step status COMPLETED every advance call
\* returns the terminal result (step 5, COMPLETED), invokes no handler and
\* leaves step, step status, overall status, error message and pipeline_data
\* as they were.
C1_TerminalAdvanceIsNoOp ==
    [][\A c \in Calls :
          (AdvanceBegin(c) /\ pipeline_step = 5
                           /\ pipeline_step_status = "COMPLETED")
          => /\ UNCHANGED <<pipeline_step, pipeline_step_status, status,
                            error_message, pipeline_data>>
             /\ response'[c] = TerminalResult
             /\ pc'[c] = "idle"
             /\ handlers_run'[c] = 0]_vars

\* An advance call has returned the terminal result on a finished asset.
C1_Witness ==
    /\ pipeline_step = 5 /\ pipeline_step_status = "COMPLETED"
    /\ pc[1] = "idle" /\ response[1] = TerminalResult

\* C2: over advance calls made one after another the persisted step number
\* never decreases, whatever the outcome of each call.
C2_StepNeverDecreases == [][pipeline_step' >= pipeline_step]_vars

\* The asset reached step 5 through calls of which one failed.
C2_Witness ==
    /\ pipeline_step = 5 /\ pc[1] = "idle"
    /\ error_message = "step error"

\* C3: the overall status is READY only if the step is 5 and the step status
\* is COMPLETED or SKIPPED.
C3_ReadyOnlyAfterStep5 ==
    status = "READY" =>
        pipeline_step = 5 /\ pipeline_step_status \in {"COMPLETED", "SKIPPED"}

\* The advance calls whose stage handler is executing.
Executing == {c \in Calls : pc[c] \in {"exec", "poll", "insert"}}

\* C4: no stage handler is executing twice at the same time for the asset
\* (an overlapping second advance is turned away before its handler runs).
C4_NoDoubleExecution == Cardinality(Executing) <= 1

\* The call returned a handler's outcome (not the terminal result).
RanAStage(c) ==
    pc[c] = "idle" /\ response[c].message \in {"step result", "step error"}

\* C5: an advance call that is not the terminal no-op runs exactly one stage
\* handler, and the step number after the call is at most one above the step
\* number the call found.
C5_OneStagePerCall ==
    \A c \in Calls :
        /\ handlers_run[c] <= 1
        /\ pc[c] \in {"poll", "insert", "ok", "raised"} => handlers_run[c] = 1
        /\ response[c].message # "All steps complete"
        /\ RanAStage(c) =>
               /\ handlers_run[c] = 1
               /\ pipeline_step = response[c].step
               /\ pipeline_step <= current[c] + 1

\* A call found step 2 completed, ran one handler and left the asset at 3.
C5_Witness ==
    /\ RanAStage(1) /\ current[1] = 2 /\ pipeline_step = 3
    /\ handlers_run[1] = 1

\* C6: an advance on step k in status POLLING runs step k again and leaves
\* the step number at k; the status is POLLING again while the vendor's list
\* is empty, and the step number passes k only in a later call, after step k
\* was recorded COMPLETED on a non-empty list.
C6_PollingReentersSameStep ==
    [][\A c \in Calls :
          /\ (AdvanceBegin(c) /\ pipeline_step_status = "POLLING")
             => /\ next_step'[c] = pipeline_step
                /\ pipeline_step' = pipeline_step
                /\ pc'[c] = "exec"
          /\ (AdvanceCommitResult(c) /\ current_status[c] = "POLLING")
             => /\ pipeline_step' = current[c]
                /\ vendor_clips = {} => pipeline_step_status' = "POLLING"
                /\ pipeline_step_status' = "COMPLETED" => vendor_clips # {}
          /\ (AdvanceBegin(c) /\ pipeline_step = 4 /\ pipeline_step' > 4)
             => /\ pipeline_step_status = "COMPLETED"
                /\ pipeline_data[4] = "COMPLETED"
                /\ vendor_clips # {}]_vars

\* A call that found step 4 POLLING polled again and returned POLLING.
C6_Witness ==
    /\ pc[1] = "idle" /\ current_status[1] = "POLLING" /\ current[1] = 4
    /\ response[1].status = "POLLING" /\ pipeline_step = 4
    /\ pipeline_step_status = "POLLING"

\* C7: an advance on step k in status FAILED runs step k again, and neither
\* the failure nor the retry changes what is recorded for steps 1..k-1.
C7_RetryKeepsEarlierResults ==
    [][\A c \in Calls :
          /\ (AdvanceBegin(c) /\ pipeline_step_status = "FAILED")
             => /\ next_step'[c] = pipeline_step
                /\ pipeline_step' = pipeline_step
                /\ pc'[c] = "exec"
          /\ (pc[c] # "idle")
             => \A j \in 1..5 :
                    j < next_step[c] => pipeline_data'[j] = pipeline_data[j]
          /\ AdvanceHandleException(c) => pipeline_data' = pipeline_data]_vars

\* The retry of the failed step 3 is running; steps 1 and 2 are recorded.
C7_Witness ==
    /\ pc[1] = "exec" /\ current_status[1] = "FAILED" /\ next_step[1] = 3
    /\ pipeline_data[1] = "COMPLETED" /\ pipeline_data[2] # "ABSENT"

\* C8: when the handler raises, the call ends with the asset persisted at the
\* attempted step, step status FAILED, overall status FAILED and the error
\* message stored, and the caller gets the error; between calls the step
\* status is never RUNNING.
C8_ExceptionPersistsFailed ==
    [][/\ \A c \in Calls :
              pc[c] = "raised" /\ pc'[c] = "idle"
              => /\ pipeline_step' = next_step[c]
                 /\ pipeline_step_status' = "FAILED"
                 /\ status' = "FAILED"
                 /\ error_message' = "step error"
                 /\ response'[c].status = "HTTP 500"
       /\ pc'[1] = "idle" => pipeline_step_status' # "RUNNING"]_vars

\* The handler of step 2 raised and the call has returned the error.
C8_Witness ==
    /\ pc[1] = "idle" /\ response[1].status = "HTTP 500"
    /\ response[1].step = 2 /\ pipeline_step = 2
    /\ pipeline_step_status = "FAILED" /\ status = "FAILED"

\* C9: the status operation shows, for the asset's current step, the
\* persisted step status (FAILED after a failure).
C9_StatusShowsStepStatus ==
    [][(GetPipelineStatus /\ pipeline_step >= 1)
       => view'.steps[pipeline_step] = pipeline_step_status]_vars

\* C10: a status or listing read of an asset that is PROCESSING (or whose
\* step is RUNNING) and was last updated more than 120 seconds ago leaves it
\* FAILED.
C10_StaleAssetFailedOnRead ==
    [][((GetPipelineStatus \/ ListAssets)
        /\ (status = "PROCESSING" \/ pipeline_step_status = "RUNNING")
        /\ age > 120)
       => status' = "FAILED"]_vars

\* C11: whenever the handler of step n is executing inside an advance call,
\* the persisted row shows step n, step status RUNNING and overall status
\* PROCESSING.
C11_HandlerSeesRunningRecord ==
    \A c \in Calls :
        pc[c] \in {"exec", "poll", "insert"}
        => /\ pipeline_step = next_step[c]
           /\ pipeline_step_status = "RUNNING"
           /\ status = "PROCESSING"

\* The pipeline state of the asset.
PipelineState == <<status, pipeline_step, pipeline_step_status, pipeline_data>>

\* C12: after the asset's creation every step that changes its overall
\* status, step, step status or pipeline_data is a step of an advance call.
C12_OnlyAdvanceMutates ==
    [][PipelineState' # PipelineState => \E c \in Calls : Advance(c)]_vars

\* C13: the status operation changes no persisted field of the asset: step,
\* step status, overall status, error message, pipeline_data, nor its
\* updated_at.
C13_StatusIsReadOnly ==
    [][GetPipelineStatus
       => UNCHANGED <<pipeline_step, pipeline_step_status, status,
                      error_message, pipeline_data, vizard_project_id,
                      file_path, age, clips>>]_vars

\* The status of an asset left PROCESSING for MaxAge seconds was read, and
\* the asset is as it was.
C13_Witness ==
    /\ view.op = "status" /\ view.overall = "PROCESSING"
    /\ status = "PROCESSING" /\ age = MaxAge /\ age > 120

\* C14: the overall status is FAILED only if the step status is FAILED (a
\* step failed and no later step has succeeded since).
C14_FailedOnlyWithFailedStage ==
    status = "FAILED" => pipeline_step_status = "FAILED"

\* C15: an advance call that runs the clip step without a clip-vendor API key
\* ends with the step recorded SKIPPED and the asset not FAILED.
C15_MissingKeySkips ==
    [][\A c \in Calls :
          (pc[c] \in {"ok", "raised"} /\ pc'[c] = "idle" /\ next_step[c] = 4
           /\ ~vizard_api_key)
          => /\ pipeline_step_status' = "SKIPPED"
             /\ pipeline_data'[4] = "SKIPPED"
             /\ status' # "FAILED"]_vars

\* C16: a newly ingested asset whose caller keeps re-invoking advance, whose
\* handlers eventually succeed and whose vendor eventually returns a
\* non-empty clip list eventually is at step 5, COMPLETED, with overall
\* status READY.
C16_EventuallyReady ==
    <>(pipeline_step = 5 /\ pipeline_step_status = "COMPLETED"
       /\ status = "READY")

\* A step of the stage handler of call c.
HandlerStep(c) ==
    \/ StepFetch(c)
    \/ StepTranscribe(c)
    \/ StepAnalyze(c)
    \/ StepClip(c)
    \/ StepClipPoll(c)
    \/ StepClipInsert(c)
    \/ StepCaptionPost(c)

C18_WindowBounds ==
    w_pc = "done"
    => /\ Len(clip_specs) <= MAX_CLIPS_PER_ASSET
       /\ \A i \in 1..Len(clip_specs) :
              /\ MIN_CLIP_DURATION * Scale <= clip_specs[i].duration
              /\ clip_specs[i].duration <= MAX_CLIP_DURATION * Scale
       /\ (Len(candidates) = 1 /\ candidates[1].start = 0
           /\ candidates[1].end = 1 * Scale)
          => /\ Len(clip_specs) = 1
             /\ clip_specs[1].start_time = 0
             /\ clip_specs[1].end_time = 5 * Scale
             /\ clip_specs[1].duration = 5 * Scale

\* The merge loop is over and no window has been padded yet.
Merged == w_pc = "pad" /\ idx = 1

\* C19: of two qualifying segments, the later-starting one beginning at most
\* MERGE_GAP seconds after the end of the earlier one, the builder makes one
\* window that spans both; with a larger gap it makes two windows, one per
\* segment.
C19_MergeByGap ==
    (Merged /\ Len(candidates) = 2)
    => LET a == candidates[1]
           b == candidates[2] IN
       IF b.start - a.end <= MERGE_GAP * Scale THEN
           /\ Len(windows) = 1
           /\ windows[1].start <= a.start /\ windows[1].end >= a.end
           /\ windows[1].start <= b.start /\ windows[1].end >= b.end
       ELSE
           /\ Len(windows) = 2
           /\ windows[1].start = a.start /\ windows[1].end = a.end
           /\ windows[2].start = b.start /\ windows[2].end = b.end

\* C20: the clip windows the builder returns are pairwise non-overlapping in
\* time.
C20_OutputsNonOverlapping ==
    w_pc = "done"
    => \A i, j \in 1..Len(clip_specs) :
           i # j => \/ clip_specs[i].end_time <= clip_specs[j].start_time
                    \/ clip_specs[j].end_time <= clip_specs[i].start_time

\* C20, amended: the merged windows are pairwise non-overlapping before
\* padding: in time order, each one starts more than MERGE_GAP seconds after
\* the one before it ends.
C20_WindowsApartBeforePadding ==
    Merged
    => \A i, j \in 1..Len(windows) :
           i < j => windows[i].end + MERGE_GAP * Scale < windows[j].start

\* Two windows were merged out of the candidates, less than MIN_CLIP_DURATION
\* seconds apart.
C20_Witness ==
    /\ Merged /\ Len(windows) = 2
    /\ windows[2].start - windows[1].end < MIN_CLIP_DURATION * Scale

\* C21: for every segment, also one with an empty text, with no or a negative
\* duration or with an unsure transcription, the hook score and the energy
\* score the scorer returns both lie in [0, 1].
C21_ScoresInUnitRange ==
    w_pc # "score" =>
        \A i \in 1..Len(segments) :
            /\ 0 <= segments[i].hook_score /\ segments[i].hook_score <= 1000
            /\ 0 <= segments[i].energy_score /\ segments[i].energy_score <= 1000

\* A segment that ends before it starts, has the text of eight keywords and
\* starts early has been scored: its hook score is the largest the code
\* gives.
C21_Witness ==
    /\ w_pc = "filter"
    /\ \E i \in 1..Len(segments) :
           /\ segments[i].end < segments[i].start
           /\ segments[i].text = EightKeywords
           /\ segments[i].hook_score = 650
           /\ segments[i].energy_score = 0

\* C22: a call of advance that did not return "already complete" chose its
\* stage from the stage and stage status it read: the stage after it when
\* the status was COMPLETED or SKIPPED, the same stage when it was POLLING or
\* FAILED, the larger of the stage and 1 otherwise; a chosen stage above 5
\* runs no handler and leaves the asset READY.
C22_StageChosenFromRecord ==
    \A c \in Calls :
        (pc[c] # "idle" \/ next_step[c] # 0) =>
            LET cur == current[c]
                cs == current_status[c]
                chosen == IF cs \in {"COMPLETED", "SKIPPED"} THEN cur + 1
                          ELSE IF cs \in {"POLLING", "FAILED"} THEN cur
                          ELSE IF cur >= 1 THEN cur ELSE 1
            IN  /\ next_step[c] = chosen
                /\ chosen > 5 =>
                       /\ handlers_run[c] = 0
                       /\ pc[c] = "idle"
                       /\ response[c].message = "All steps complete"

\* A call found stage 3 FAILED and is running stage 3 again; the asset was
\* ingested with no stage recorded and stage 1 was chosen first.
C22_Witness ==
    /\ pc[1] = "exec"
    /\ current[1] = 3 /\ current_status[1] = "FAILED"
    /\ next_step[1] = 3
    /\ pipeline_data[1] = "COMPLETED"

\* C23: the stages run in the order 1..5: whenever the handler of a stage k
\* in 2..5 is about to run or has run in a call, stage k-1 has been recorded
\* COMPLETED or SKIPPED.
C23_StagesInOrder ==
    \A c \in Calls :
        (pc[c] # "idle" /\ next_step[c] \in 2..5) =>
            pipeline_data[next_step[c] - 1] \in {"COMPLETED", "SKIPPED"}

\* Stage 5 is about to run after stage 2 was skipped and stages 1, 3 and 4
\* were completed.
C23_Witness ==
    /\ pc[1] = "exec" /\ next_step[1] = 5 /\ handlers_run[1] = 0
    /\ pipeline_data[1] = "COMPLETED"
    /\ pipeline_data[2] = "SKIPPED"
    /\ pipeline_data[3] = "COMPLETED"
    /\ pipeline_data[4] = "COMPLETED"

\* C24: a poll that fails at the vendor is told apart from a poll that finds
\* the clips not ready: when the vendor has the clips of the project, so that
\* only a failed request gives the handler an empty list, the poll is not
\* recorded POLLING.
C24_VendorErrorNotPolling ==
    [][\A c \in Calls :
          ((StepClipPoll(c) \/ (StepClip(c) /\ vizard_project_id # 0))
              /\ vendor_clips # {})
          => result'[c] # "POLLING"]_vars

C26_StepNeverDecreasesInRace == [][pipeline_step' >= pipeline_step]_vars

C28_OneClipPerUrl == \A u \in Urls : clips[u] <= 1

\* C29: READY is final: when the overall status of the asset is READY, no
\* advance call, status read or asset read changes its overall status, its
\* step or its step status.
C29_ReadyIsTerminal ==
    [][(/\ status = "READY"
        /\ \/ \E c \in Calls : Advance(c)
           \/ GetPipelineStatus
           \/ GetAsset)
       => /\ status' = status
          /\ pipeline_step' = pipeline_step
          /\ pipeline_step_status' = pipeline_step_status]_vars

\* C30: before padding and capping, every merged window contains every
\* segment merged into it: each candidate segment starts no earlier and ends
\* no later than one of the merged windows, also a segment that starts later
\* than another and ends before it.
C30_WindowContainsSegments ==
    Merged =>
        \A i \in 1..Len(candidates) :
            \E j \in 1..Len(windows) :
                /\ windows[j].start <= candidates[i].start
                /\ candidates[i].end <= windows[j].end

====
